---- MODULE Spec2Model ----
(***************************************************************************)
(* The Streamlit script concrete.py as a state machine.  One render is one *)
(* top-to-bottom execution of the script; every statement that calls a     *)
(* library or writes to the page is one step.  The widget values and the   *)
(* pyplot figure registry live in the server process and outlive a render; *)
(* everything else is a script local, rebuilt by each render.              *)
(*                                                                         *)
(* Lengths are whole millimetres and strengths whole MPa.                  *)
(***************************************************************************)
EXTENDS Integers, Sequences, FiniteSets

VARIABLES
    widget,        \* the six number_input widgets' current values
    pc,            \* the statement the script is at, or "done" / "aborted"
    failedAt,      \* the statement whose exception ended the render
    D, dia_bar, n_bar, cover_to_bar, fc, fy,   \* script locals, lines 50-60
    concrete, steel, geom, section,            \* script locals, lines 66-109
    fig_sec, props, mi_x, fig_x, mi_y, fig_y,  \* script locals, lines 114-160
    out,           \* what this render has written to the page, in order
    calls,         \* the analysis-library calls of this render, in order
    figs,          \* pyplot's registry: the numbers of the open figures
    figsAtStart,   \* the registry as this render found it (history)
    ref            \* a completed render kept for comparison (history)

locals == <<D, dia_bar, n_bar, cover_to_bar, fc, fy, concrete, steel, geom,
            section, fig_sec, props, mi_x, fig_x, mi_y, fig_y>>
vars == <<widget, pc, failedAt, locals, out, calls, figs, figsAtStart, ref>>

None == [kind |-> "none"]

(***************************************************************************)
(* Bounds of the model.                                                    *)
(***************************************************************************)
\* Most figures that aborted renders may leave open.
MaxLeaked == 1

(***************************************************************************)
(* The sidebar widgets, lines 50-60.                                       *)
(***************************************************************************)
Widgets == {"D", "dia_bar", "n_bar", "cover_to_bar", "fc", "fy"}

\* value=...: what each widget holds before the user touches it.
value ==
    [D |-> 400, dia_bar |-> 20, n_bar |-> 3, cover_to_bar |-> 30,
     fc |-> 32, fy |-> 500]

\* The mutant of min_value: the bar count may be zero.
min_value_zero_bars ==
    [D |-> 100, dia_bar |-> 10, n_bar |-> 0, cover_to_bar |-> 5,
     fc |-> 20, fy |-> 200]

\* min_value=...: no widget gives max_value.
min_value ==
    [D |-> 100, dia_bar |-> 10, n_bar |-> 1, cover_to_bar |-> 5,
     fc |-> 20, fy |-> 200]

\* What a user may type into each widget (some of it below the minimum).
Typed ==
    [D |-> {90, 100, 400}, dia_bar |-> {5, 10, 20}, n_bar |-> {0, 1, 3, 8},
     cover_to_bar |-> {0, 30, 60}, fc |-> {10, 20, 32},
     fy |-> {100, 200, 500}]

\* The mutant of number_input: whatever is typed is kept.
number_input_unchecked(w, typed) == TRUE

\* number_input keeps a typed value only when it is not below min_value.
number_input(w, typed) == typed >= min_value[w]

(***************************************************************************)
(* Arithmetic of the script.                                               *)
(***************************************************************************)
\* np.pi, as the rational PiNum / PiDen.
PiNum == 355
PiDen == 113

\* format(num / den, ".0f") for den > 0: the nearest integer, a tie going
\* to the even one.
RoundHalfEven(num, den) ==
    LET q == num \div den
        r == num % den
    IN  IF 2 * r < den THEN q
        ELSE IF 2 * r > den THEN q + 1
        ELSE IF q % 2 = 0 THEN q ELSE q + 1

\* np.pi * (x**2) / 4.0, lines 93-94, to the whole square millimetre.
CircleArea(x) == RoundHalfEven(PiNum * x * x, PiDen * 4)

\* The mutant of ClearDistance: the bar diameter is not subtracted.
ClearDistanceCentres(d, cover, n, dia) ==
    RoundHalfEven(PiNum * (d - 2 * cover), n * PiDen)

\* f"{(np.pi * (D - 2 * cover_to_bar) / n_bar - dia_bar):.0f}", line 136.
ClearDistance(d, cover, n, dia) ==
    RoundHalfEven(PiNum * (d - 2 * cover) - dia * n * PiDen, n * PiDen)

(***************************************************************************)
(* The objects the libraries hand back.  What the analysis library computes*)
(* is not modelled: a result is named by the call that made it and the     *)
(* object it was made from.                                                *)
(***************************************************************************)
\* Concrete(...), lines 66-78.
Concrete(strength) ==
    [kind |-> "Concrete", name |-> RoundHalfEven(strength, 1),
     compressive_strength |-> strength]

\* SteelBar(...), lines 80-87.
SteelBar(strength) ==
    [kind |-> "SteelBar", name |-> RoundHalfEven(strength, 1),
     yield_strength |-> strength]

\* The mutant of GeomArgs: the cover is taken to the bar centre.
GeomArgsCoverToCentre ==
    [d |-> D, area_conc |-> CircleArea(D), n_conc |-> 96,
     dia_bar |-> dia_bar, area_bar |-> CircleArea(dia_bar), n_bar |-> n_bar,
     cover |-> cover_to_bar + dia_bar \div 2, n_circle |-> 16,
     conc_mat |-> concrete, steel_mat |-> steel]

\* The keyword arguments of concrete_circular_section, lines 96-107.
GeomArgs ==
    [d |-> D, area_conc |-> CircleArea(D), n_conc |-> 96,
     dia_bar |-> dia_bar, area_bar |-> CircleArea(dia_bar), n_bar |-> n_bar,
     cover |-> cover_to_bar, n_circle |-> 16,
     conc_mat |-> concrete, steel_mat |-> steel]

\* concrete_circular_section(**args): the geometry it returns.
concrete_circular_section(args) ==
    [kind |-> "geometry", shape |-> "circular", args |-> args]

\* The constructor rejects a bar cover that exceeds the radius.
GeometryInvalid(args) == 2 * args.cover > args.d

\* ConcreteSection(geom), line 109.
ConcreteSection(g) == [kind |-> "ConcreteSection", geom |-> g]

\* section.get_gross_properties(), line 124.
get_gross_properties(s) == [kind |-> "GrossProperties", section |-> s]

\* np.pi / 2 and 0.0 radians, in degrees (lines 146 and 157).
ThetaX == 0
ThetaY == 90

\* section.moment_interaction_diagram(theta=...), lines 146 and 157.
moment_interaction_diagram(s, theta) ==
    [kind |-> "MomentInteractionResults", section |-> s, theta |-> theta]

\* What section.plot_section() draws, line 114.
plot_section(s) == [plot |-> "section", section |-> s]

\* What mi.plot_diagram(eng=True, units=..., moment=...) draws.
plot_diagram(mi, units, moment) ==
    [plot |-> "diagram", results |-> mi, units |-> units, moment |-> moment]

\* The mutant of DiagramY: the x diagram's keywords, pasted.
DiagramYPasted == plot_diagram(mi_y, "si_n_mm", "m_x")

\* Lines 148 and 159: the two plot_diagram calls.
DiagramX == plot_diagram(mi_x, "si_n_mm", "m_x")
DiagramY == plot_diagram(mi_y, "si_kn_m", "m_y")

(***************************************************************************)
(* pyplot's figure registry.                                               *)
(***************************************************************************)
Max(S) == CHOOSE m \in S : \A x \in S : x <= m

\* plt.subplots() inside a plot call: the next free figure number.
NextFigNum == IF figs = {} THEN 1 ELSE Max(figs) + 1

\* ax.get_figure() if isinstance(ax, Axes) else ax, lines 115, 149, 160.
Figure(num, shows) == [kind |-> "figure", num |-> num, shows |-> shows]

\* The mutant of plt_close: the figure stays registered.
plt_close_nothing(fig) == figs

\* plt.close(fig), lines 118, 153, 164.
plt_close(fig) == figs \ {fig.num}

(***************************************************************************)
(* What Streamlit writes to the page.                                      *)
(***************************************************************************)
Text(kind, text) ==
    [kind |-> kind, text |-> text, column |-> "page"]

\* The mutant of st_pyplot: the figure's number is shown with it.
st_pyplot_numbered(fig, column) ==
    [kind |-> "pyplot", shows |-> fig.shows, column |-> column,
     num |-> fig.num]

\* st.pyplot(fig), lines 117, 151, 162.
st_pyplot(fig, column) ==
    [kind |-> "pyplot", shows |-> fig.shows, column |-> column]

\* st.json({...}), lines 125-131.
st_json(p) ==
    [kind |-> "json",
     keys |-> <<"Total Area (mm2)", "E.Ixx_g (N.mm2)", "E.Iyy_g (N.mm2)">>,
     values |-> <<"total_area", "e_ixx_g", "e_iyy_g">>, of |-> p]

\* st.write(f"Clear distance (mm): {...:.0f}"), line 136.
st_write_clear_distance ==
    [kind |-> "write", text |-> "Clear distance (mm)",
     number |-> ClearDistance(D, cover_to_bar, n_bar, dia_bar)]

\* st.caption(...), lines 152 and 163.
CaptionX ==
    [kind |-> "caption", axis |-> "x", degrees |-> 0, units |-> "N.mm",
     column |-> "left"]
CaptionY ==
    [kind |-> "caption", axis |-> "y", degrees |-> 90, units |-> "kN.m",
     column |-> "right"]

\* The mutant of FigureShownRight: the left column's figure again.
FigureShownLeftAgain == fig_x

\* The figure handed to st.pyplot under col_y, line 162.
FigureShownRight == fig_y

(***************************************************************************)
(* The script, statement by statement.                                     *)
(***************************************************************************)
inputs == <<D, dia_bar, n_bar, cover_to_bar, fc, fy>>
objects == <<concrete, steel, geom, section>>
results == <<fig_sec, props, mi_x, fig_x, mi_y, fig_y>>
history == <<figsAtStart, ref>>

\* The statements that call into a library that may raise.
LibraryCalls ==
    {"Concrete", "SteelBar", "concrete_circular_section", "ConcreteSection",
     "plot_section", "pyplot_sec", "get_gross_properties",
     "moment_interaction_diagram_x", "plot_diagram_x", "pyplot_x",
     "moment_interaction_diagram_y", "plot_diagram_y", "pyplot_y"}

Init ==
    /\ widget = value
    /\ pc = "title"
    /\ failedAt = "none"
    /\ D = None /\ dia_bar = None /\ n_bar = None
    /\ cover_to_bar = None /\ fc = None /\ fy = None
    /\ concrete = None /\ steel = None /\ geom = None /\ section = None
    /\ fig_sec = None /\ props = None /\ mi_x = None /\ fig_x = None
    /\ mi_y = None /\ fig_y = None
    /\ out = <<>>
    /\ calls = <<>>
    /\ figs = {}
    /\ figsAtStart = {}
    /\ ref = None

\* The mutant of Raise: the exception is caught and the script goes on.
RaiseCaught(site, next) ==
    /\ pc' = next
    /\ failedAt' = site

\* An exception leaves statement `site`: nothing catches it, the render ends.
Raise(site, next) ==
    /\ pc' = "aborted"
    /\ failedAt' = site

Goto(next) == pc' = next /\ failedAt' = failedAt

Emit(e) == out' = Append(out, e)

Call(op, on) == calls' = Append(calls, [op |-> op, on |-> on])

\* A statement that only writes to the page.
Write(at, e, next) ==
    /\ pc = at
    /\ Goto(next)
    /\ Emit(e)
    /\ UNCHANGED <<widget, inputs, objects, results, calls, figs, history>>

\* Lines 43-44: st.set_page_config, st.title.
Title == Write("title", Text("title", "ConcreteProperties Example Explorer"),
               "sidebar")

\* Lines 49-60: the sidebar's headers and number inputs.
Sidebar ==
    /\ pc = "sidebar"
    /\ Goto("Concrete")
    /\ D' = widget.D
    /\ dia_bar' = widget.dia_bar
    /\ n_bar' = widget.n_bar
    /\ cover_to_bar' = widget.cover_to_bar
    /\ fc' = widget.fc
    /\ fy' = widget.fy
    /\ out' = out \o <<Text("sidebar.header", "Geometry (mm)"),
                       Text("sidebar.header", "Reinforcement"),
                       Text("sidebar.header", "Materials")>>
    /\ UNCHANGED <<widget, objects, results, calls, figs, history>>

\* Lines 66-78.
BuildConcrete ==
    /\ pc = "Concrete"
    /\ Call("Concrete", fc)
    /\ \/ /\ Goto("SteelBar")
          /\ concrete' = Concrete(fc)
       \/ /\ Raise("Concrete", "SteelBar")
          /\ UNCHANGED concrete
    /\ UNCHANGED <<widget, inputs, steel, geom, section, results, out, figs,
                   history>>

\* Lines 80-87.
BuildSteel ==
    /\ pc = "SteelBar"
    /\ Call("SteelBar", fy)
    /\ \/ /\ Goto("concrete_circular_section")
          /\ steel' = SteelBar(fy)
       \/ /\ Raise("SteelBar", "concrete_circular_section")
          /\ UNCHANGED steel
    /\ UNCHANGED <<widget, inputs, concrete, geom, section, results, out,
                   figs, history>>

\* Lines 93-107.
BuildGeometry ==
    /\ pc = "concrete_circular_section"
    /\ Call("concrete_circular_section", GeomArgs)
    /\ \/ /\ ~GeometryInvalid(GeomArgs)
          /\ Goto("ConcreteSection")
          /\ geom' = concrete_circular_section(GeomArgs)
       \/ /\ Raise("concrete_circular_section", "ConcreteSection")
          /\ UNCHANGED geom
    /\ UNCHANGED <<widget, inputs, concrete, steel, section, results, out,
                   figs, history>>

\* Line 109.
BuildSection ==
    /\ pc = "ConcreteSection"
    /\ Call("ConcreteSection", geom)
    /\ \/ /\ Goto("plot_section")
          /\ section' = ConcreteSection(geom)
       \/ /\ Raise("ConcreteSection", "plot_section")
          /\ UNCHANGED section
    /\ UNCHANGED <<widget, inputs, concrete, steel, geom, results, out, figs,
                   history>>

\* A plot call of the library: it opens a figure with plt.subplots() and
\* draws on it.  It may raise before the figure exists, or after, and then
\* the figure it opened stays in the registry.
PlotOutcome(site, next, figNew, figOld, shows) ==
    \/ /\ Goto(next)
       /\ figNew = Figure(NextFigNum, shows)
       /\ figs' = figs \cup {NextFigNum}
    \/ /\ Raise(site, next)
       /\ figNew = figOld
       /\ figs' = figs
    \/ /\ Cardinality(figs) < MaxLeaked
       /\ Raise(site, next)
       /\ figNew = figOld
       /\ figs' = figs \cup {NextFigNum}

\* st.pyplot(fig): it renders the figure to the page, or raises.
PyplotOutcome(site, next, fig, column) ==
    \/ /\ Goto(next)
       /\ Emit(st_pyplot(fig, column))
    \/ /\ Cardinality(figs) <= MaxLeaked
       /\ Raise(site, next)
       /\ UNCHANGED out

\* Lines 114-115.
PlotSection ==
    /\ pc = "plot_section"
    /\ Call("plot_section", section)
    /\ PlotOutcome("plot_section", "subheader_sec", fig_sec', fig_sec,
                   plot_section(section))
    /\ UNCHANGED <<widget, inputs, objects, props, mi_x, fig_x, mi_y, fig_y,
                   out, history>>

\* Line 116.
SubheaderSection ==
    Write("subheader_sec", Text("subheader", "Cross-Section"), "pyplot_sec")

\* Line 117.
ShowSection ==
    /\ pc = "pyplot_sec"
    /\ PyplotOutcome("pyplot_sec", "close_sec", fig_sec, "page")
    /\ UNCHANGED <<widget, inputs, objects, results, calls, figs, history>>

\* Line 118.
CloseSection ==
    /\ pc = "close_sec"
    /\ Goto("subheader_props")
    /\ figs' = plt_close(fig_sec)
    /\ UNCHANGED <<widget, inputs, objects, results, out, calls, history>>

\* Line 123.
SubheaderProps ==
    Write("subheader_props", Text("subheader", "Gross Area Properties"),
          "get_gross_properties")

\* Line 124.
GetGrossProperties ==
    /\ pc = "get_gross_properties"
    /\ Call("get_gross_properties", section)
    /\ \/ /\ Goto("json")
          /\ props' = get_gross_properties(section)
       \/ /\ Raise("get_gross_properties", "json")
          /\ UNCHANGED props
    /\ UNCHANGED <<widget, inputs, objects, fig_sec, mi_x, fig_x, mi_y,
                   fig_y, out, figs, history>>

\* Lines 125-131.
ShowProps == Write("json", st_json(props), "subheader_dist")

\* Line 135.
SubheaderDistance ==
    Write("subheader_dist", Text("subheader", "Distance between bars"),
          "write_dist")

\* Line 136: the division raises ZeroDivisionError for a bar count of zero.
ShowClearDistance ==
    /\ pc = "write_dist"
    /\ IF n_bar = 0
       THEN Raise("write_dist", "subheader_mi") /\ UNCHANGED out
       ELSE Goto("subheader_mi") /\ Emit(st_write_clear_distance)
    /\ UNCHANGED <<widget, inputs, objects, results, calls, figs, history>>

\* Lines 141-142: the subheader and the two columns.
SubheaderDiagrams ==
    Write("subheader_mi", Text("subheader", "Moment Interaction Diagrams"),
          "moment_interaction_diagram_x")

\* Lines 145-146.
InteractionX ==
    /\ pc = "moment_interaction_diagram_x"
    /\ Call("moment_interaction_diagram", [section |-> section,
                                           theta |-> ThetaX])
    /\ \/ /\ Goto("plot_diagram_x")
          /\ mi_x' = moment_interaction_diagram(section, ThetaX)
       \/ /\ Raise("moment_interaction_diagram_x", "plot_diagram_x")
          /\ UNCHANGED mi_x
    /\ UNCHANGED <<widget, inputs, objects, fig_sec, props, fig_x, mi_y,
                   fig_y, out, figs, history>>

\* Lines 148-149.
PlotX ==
    /\ pc = "plot_diagram_x"
    /\ Call("plot_diagram", mi_x)
    /\ PlotOutcome("plot_diagram_x", "pyplot_x", fig_x', fig_x, DiagramX)
    /\ UNCHANGED <<widget, inputs, objects, fig_sec, props, mi_x, mi_y,
                   fig_y, out, history>>

\* Lines 150-151.
ShowX ==
    /\ pc = "pyplot_x"
    /\ PyplotOutcome("pyplot_x", "caption_x", fig_x, "left")
    /\ UNCHANGED <<widget, inputs, objects, results, calls, figs, history>>

\* Line 152.
CaptionLeft == Write("caption_x", CaptionX, "close_x")

\* Line 153.
CloseX ==
    /\ pc = "close_x"
    /\ Goto("moment_interaction_diagram_y")
    /\ figs' = plt_close(fig_x)
    /\ UNCHANGED <<widget, inputs, objects, results, out, calls, history>>

\* Lines 156-157.
InteractionY ==
    /\ pc = "moment_interaction_diagram_y"
    /\ Call("moment_interaction_diagram", [section |-> section,
                                           theta |-> ThetaY])
    /\ \/ /\ Goto("plot_diagram_y")
          /\ mi_y' = moment_interaction_diagram(section, ThetaY)
       \/ /\ Raise("moment_interaction_diagram_y", "plot_diagram_y")
          /\ UNCHANGED mi_y
    /\ UNCHANGED <<widget, inputs, objects, fig_sec, props, mi_x, fig_x,
                   fig_y, out, figs, history>>

\* Lines 159-160.
PlotY ==
    /\ pc = "plot_diagram_y"
    /\ Call("plot_diagram", mi_y)
    /\ PlotOutcome("plot_diagram_y", "pyplot_y", fig_y', fig_y, DiagramY)
    /\ UNCHANGED <<widget, inputs, objects, fig_sec, props, mi_x, fig_x,
                   mi_y, out, history>>

\* Lines 161-162.
ShowY ==
    /\ pc = "pyplot_y"
    /\ PyplotOutcome("pyplot_y", "caption_y", FigureShownRight, "right")
    /\ UNCHANGED <<widget, inputs, objects, results, calls, figs, history>>

\* Line 163.
CaptionRight == Write("caption_y", CaptionY, "close_y")

\* Line 164.
CloseY ==
    /\ pc = "close_y"
    /\ Goto("footer")
    /\ figs' = plt_close(fig_y)
    /\ UNCHANGED <<widget, inputs, objects, results, out, calls, history>>

\* Line 169: the footer; the script ends.
Footer ==
    Write("footer", Text("caption", "App built with concreteproperties"),
          "done")

Finished == pc \in {"done", "aborted"}

\* The user commits a new value in one widget: Streamlit runs the script
\* again from the top, with fresh locals and an empty page.  The widget
\* values and pyplot's registry are the server's and stay.
InputChange ==
    /\ Finished
    /\ \E w \in Widgets : \E typed \in Typed[w] :
          /\ number_input(w, typed)
          /\ typed # widget[w]
          /\ widget' = [widget EXCEPT ![w] = typed]
    /\ pc' = "title"
    /\ failedAt' = "none"
    /\ D' = None /\ dia_bar' = None /\ n_bar' = None
    /\ cover_to_bar' = None /\ fc' = None /\ fy' = None
    /\ concrete' = None /\ steel' = None /\ geom' = None /\ section' = None
    /\ fig_sec' = None /\ props' = None /\ mi_x' = None /\ fig_x' = None
    /\ mi_y' = None /\ fig_y' = None
    /\ out' = <<>>
    /\ calls' = <<>>
    /\ figsAtStart' = figs
    /\ UNCHANGED <<figs, ref>>

Step ==
    \/ Title \/ Sidebar \/ BuildConcrete \/ BuildSteel \/ BuildGeometry
    \/ BuildSection \/ PlotSection \/ SubheaderSection \/ ShowSection
    \/ CloseSection \/ SubheaderProps \/ GetGrossProperties \/ ShowProps
    \/ SubheaderDistance \/ ShowClearDistance \/ SubheaderDiagrams
    \/ InteractionX \/ PlotX \/ ShowX \/ CaptionLeft \/ CloseX
    \/ InteractionY \/ PlotY \/ ShowY \/ CaptionRight \/ CloseY \/ Footer

Next == Step \/ InputChange

Spec == Init /\ [][Next]_vars

\* The observer keeps one completed render that ran on an empty registry:
\* its inputs and what it wrote to the page.
Remember ==
    /\ pc = "done"
    /\ figs = {}
    /\ ref = None
    /\ ref' = [kind |-> "render", inputs |-> inputs, out |-> out]
    /\ UNCHANGED <<widget, pc, failedAt, locals, out, calls, figs,
                   figsAtStart>>

NextRef == Next \/ Remember

SpecRef == Init /\ [][NextRef]_vars

(***************************************************************************)
(* Properties.                                                             *)
(***************************************************************************)
InputsRead == pc \notin {"title", "sidebar"}

IsPrefix(a, b) == Len(a) <= Len(b) /\ \A i \in 1..Len(a) : a[i] = b[i]

\* The page elements that carry a result: plots, the summary, the number.
IsResult(e) == e.kind \in {"pyplot", "json", "write"}

ResultName(e) ==
    CASE e.kind = "json" -> "gross_properties"
      [] e.kind = "write" -> "clear_spacing"
      [] e.kind = "pyplot" /\ e.shows.plot = "section" -> "section_plot"
      [] e.kind = "pyplot" /\ e.shows.plot = "diagram" ->
            IF e.shows.moment = "m_x" THEN "x_diagram" ELSE "y_diagram"

Results ==
    LET r == SelectSeq(out, IsResult)
    IN  [i \in 1..Len(r) |-> ResultName(r[i])]

FiveResults ==
    <<"section_plot", "gross_properties", "clear_spacing", "x_diagram",
      "y_diagram">>

\* C1: a render that ends with no library call having raised has written
\* exactly the section plot, the gross-property summary, the clear-spacing
\* number, the x diagram and the y diagram, once each and in this order;
\* until then what it has written is a beginning of that list.
C1_FiveResultsInOrder ==
    /\ IsPrefix(Results, FiveResults)
    /\ (Finished /\ failedAt \notin LibraryCalls) => Results = FiveResults
    /\ \A i \in 1..Len(out) :
          (out[i].kind = "json") =>
              out[i].values = <<"total_area", "e_ixx_g", "e_iyy_g">>

C1_Witness ==
    /\ pc = "done"
    /\ failedAt = "none"
    /\ Results = FiveResults

\* The page elements a render has written by the time it reaches each
\* library call.
WrittenBefore(site) ==
    CASE site \in {"Concrete", "SteelBar", "concrete_circular_section",
                   "ConcreteSection", "plot_section"} -> 4
      [] site = "pyplot_sec" -> 5
      [] site = "get_gross_properties" -> 7
      [] site \in {"moment_interaction_diagram_x", "plot_diagram_x",
                   "pyplot_x"} -> 11
      [] site \in {"moment_interaction_diagram_y", "plot_diagram_y",
                   "pyplot_y"} -> 13

\* The local each library call would have assigned.
AssignedBy(site) ==
    CASE site = "Concrete" -> concrete
      [] site = "SteelBar" -> steel
      [] site = "concrete_circular_section" -> geom
      [] site = "ConcreteSection" -> section
      [] site = "plot_section" -> fig_sec
      [] site = "get_gross_properties" -> props
      [] site = "moment_interaction_diagram_x" -> mi_x
      [] site = "plot_diagram_x" -> fig_x
      [] site = "moment_interaction_diagram_y" -> mi_y
      [] site = "plot_diagram_y" -> fig_y
      [] OTHER -> None

\* C2: an exception raised by a library call ends the render at that call:
\* the page holds only what was written before it, the call's result is
\* never replaced by a fallback, no call is made twice, and nothing more
\* happens until an input change starts the next render.  When the geometry
\* constructor raises, no result at all has been written.
C2_ExceptionEndsRender ==
    /\ [](failedAt # "none" =>
            /\ pc = "aborted"
            /\ failedAt \in LibraryCalls
            /\ Len(out) = WrittenBefore(failedAt)
            /\ AssignedBy(failedAt) = None
            /\ (failedAt = "concrete_circular_section" => Results = <<>>))
    /\ [](\A i, j \in 1..Len(calls) : calls[i] = calls[j] => i = j)
    /\ [][pc = "aborted" => (pc' = "title" /\ out' = <<>> /\ calls' = <<>>)]_vars

C2_Witness ==
    /\ pc = "aborted"
    /\ failedAt = "concrete_circular_section"
    /\ GeometryInvalid(GeomArgs)
    /\ Results = <<>>
    /\ Len(out) = 4

\* The inputs lie in the ranges the widgets accept.
InWidgetRanges ==
    /\ D >= 100 /\ dia_bar >= 10 /\ n_bar >= 1 /\ cover_to_bar >= 5
    /\ fc >= 20 /\ fy >= 200

HasPlot(name) == \E i \in 1..Len(Results) : Results[i] = name

C4_InputsRespectMinimum ==
    InputsRead =>
        /\ D >= 100 /\ dia_bar >= 10 /\ cover_to_bar >= 5
        /\ fc >= 20 /\ fy >= 200
        /\ n_bar \in Nat /\ n_bar >= 1
        /\ \A x \in {D, dia_bar, cover_to_bar, fc, fy, n_bar} : x > 0
        /\ n_bar * PiDen # 0

\* The minimum values have reached the division by the bar count.
C4_Witness ==
    /\ pc = "subheader_mi"
    /\ n_bar = 1 /\ D = 100 /\ dia_bar = 10 /\ fc = 20 /\ fy = 200
    /\ out[Len(out)].kind = "write"

IsNearest(z, d, cover, n, dia) ==
    LET num == PiNum * (d - 2 * cover) - dia * n * PiDen
        den == n * PiDen
    IN  /\ 2 * (num - z * den) <= den
        /\ 2 * (z * den - num) <= den

\* C6: the clear-spacing number on the page is
\* pi * (D - 2 * cover_to_bar) / n_bar - dia_bar rounded to a whole number,
\* taken on the very d, cover, n_bar and dia_bar the render passed to the
\* geometry constructor.
C6_ClearSpacingOfGeometryInputs ==
    \A i \in 1..Len(out) :
        out[i].kind = "write" =>
            /\ Len(calls) >= 3
            /\ calls[3].op = "concrete_circular_section"
            /\ LET a == calls[3].on
               IN  /\ IsNearest(out[i].number, a.d, a.cover, a.n_bar,
                                a.dia_bar)
                   /\ a.d = D /\ a.cover = cover_to_bar
                   /\ a.n_bar = n_bar /\ a.dia_bar = dia_bar

\* Bars that overlap: the number shown is negative.
C6_Witness ==
    /\ pc = "subheader_mi"
    /\ out[Len(out)].kind = "write"
    /\ out[Len(out)].number = -4
    /\ D = 100 /\ cover_to_bar = 30 /\ n_bar = 8 /\ dia_bar = 20

\* C7: the section whose gross properties are shown is built from a
\* rectangular geometry.
C7_GrossPropertiesOfRectangularBeam ==
    props # None => props.section.geom.shape = "rectangular"

\* The library calls of a render that nothing interrupts, in order.
CallOrder ==
    <<"Concrete", "SteelBar", "concrete_circular_section", "ConcreteSection",
      "plot_section", "get_gross_properties", "moment_interaction_diagram",
      "plot_diagram", "moment_interaction_diagram", "plot_diagram">>

\* The one section a render's inputs determine.
SectionOfInputs ==
    [kind |-> "ConcreteSection",
     geom |->
        [kind |-> "geometry", shape |-> "circular",
         args |->
            [d |-> D, area_conc |-> CircleArea(D), n_conc |-> 96,
             dia_bar |-> dia_bar, area_bar |-> CircleArea(dia_bar),
             n_bar |-> n_bar, cover |-> cover_to_bar, n_circle |-> 16,
             conc_mat |->
                [kind |-> "Concrete", name |-> fc,
                 compressive_strength |-> fc],
             steel_mat |->
                [kind |-> "SteelBar", name |-> fy,
                 yield_strength |-> fy]]]]

\* C8: the library is called in the order materials, circular geometry,
\* section, section plot, gross properties, x diagram, y diagram, after the
\* inputs are read; the section is built once, from the geometry built from
\* this render's D, dia_bar, n_bar, cover_to_bar and the materials of its fc
\* and fy; and the plot, the gross-property query and both diagram
\* computations are made on that one section.
C8_OneSectionInFixedOrder ==
    /\ Len(calls) <= Len(CallOrder)
    /\ \A i \in 1..Len(calls) : calls[i].op = CallOrder[i]
    /\ calls # <<>> => InputsRead
    /\ Len(calls) >= 4 => calls[4].on = SectionOfInputs.geom
    /\ section # None =>
          /\ section = SectionOfInputs
          /\ Len(calls) >= 4
    /\ Len(calls) >= 5 => calls[5].on = SectionOfInputs
    /\ Len(calls) >= 6 => calls[6].on = SectionOfInputs
    /\ Len(calls) >= 7 => calls[7].on.section = SectionOfInputs
    /\ Len(calls) >= 9 => calls[9].on.section = SectionOfInputs
    /\ props # None => props.section = SectionOfInputs
    /\ mi_x # None => mi_x.section = SectionOfInputs
    /\ mi_y # None => mi_y.section = SectionOfInputs
    /\ fig_sec # None => fig_sec.shows.section = SectionOfInputs

C8_Witness ==
    /\ pc = "done"
    /\ Len(calls) = 10
    /\ D = 100 /\ fc = 20 /\ fy = 200
    /\ mi_y.section = section

\* The unit system's label and the moment's axis, as a caption names them.
UnitsLabel(units) == IF units = "si_n_mm" THEN "N.mm" ELSE "kN.m"
AxisOf(moment) == IF moment = "m_x" THEN "x" ELSE "y"

PlotIn(column) ==
    {i \in 1..Len(out) : out[i].kind = "pyplot" /\ out[i].column = column}
CaptionIn(column) ==
    {i \in 1..Len(out) : out[i].kind = "caption" /\ out[i].column = column}

\* C9: the first diagram is computed at theta = 0 and plotted with m_x in
\* N.mm in the left column, the second at theta = pi/2 (90 degrees) with
\* m_y in kN.m in the right column; each caption stands under its plot and
\* names that plot's axis, angle and units; and by the time the y diagram
\* is computed the x diagram is on the page and its figure is closed.
C9_TwoDiagramsSideBySide ==
    /\ Len(calls) >= 7 => calls[7].on.theta = 0
    /\ Len(calls) >= 9 =>
          /\ calls[9].on.theta = 90
          /\ PlotIn("left") # {}
          /\ CaptionIn("left") # {}
          /\ fig_x # None
    /\ Len(calls) = 9 => figs = figsAtStart
    /\ \A i \in PlotIn("left") :
          /\ out[i].shows.results.theta = 0
          /\ out[i].shows.moment = "m_x"
          /\ out[i].shows.units = "si_n_mm"
    /\ \A i \in PlotIn("right") :
          /\ out[i].shows.results.theta = 90
          /\ out[i].shows.moment = "m_y"
          /\ out[i].shows.units = "si_kn_m"
    /\ \A c \in {"left", "right"} : \A i \in CaptionIn(c) :
          /\ i > 1
          /\ i - 1 \in PlotIn(c)
          /\ out[i].axis = AxisOf(out[i - 1].shows.moment)
          /\ out[i].degrees = out[i - 1].shows.results.theta
          /\ out[i].units = UnitsLabel(out[i - 1].shows.units)

C9_Witness ==
    /\ pc = "done"
    /\ CaptionIn("left") # {}
    /\ CaptionIn("right") # {}
    /\ PlotIn("left") # {}
    /\ PlotIn("right") # {}

\* C10, as first stated: at most one figure is open at any point of a
\* render and none is open when a render completes.
C10_AtMostOneFigureOpen ==
    /\ Cardinality(figs) <= 1
    /\ pc = "done" => figs = {}

\* C10, amended: of the figures a render itself opens at most one is open
\* at any point, each is closed before the next is opened, and a render
\* that completes leaves the registry exactly as it found it, so completed
\* renders never add to the open figures.  A render adds a figure only by
\* aborting in a plot call or in the st.pyplot that follows it; the figures
\* such renders left open stay open through every later render.
C10_OwnFiguresClosed ==
    /\ figsAtStart \subseteq figs
    /\ Cardinality(figs \ figsAtStart) <= 1
    /\ pc = "done" => figs = figsAtStart
    /\ pc \in {"plot_section", "plot_diagram_x", "plot_diagram_y"} =>
          figs = figsAtStart
    /\ figs # figsAtStart =>
          \/ pc \in {"subheader_sec", "pyplot_sec", "close_sec", "pyplot_x",
                     "caption_x", "close_x", "pyplot_y", "caption_y",
                     "close_y"}
          \/ /\ pc = "aborted"
             /\ failedAt \in {"plot_section", "pyplot_sec", "plot_diagram_x",
                              "pyplot_x", "plot_diagram_y", "pyplot_y"}

\* A render completes while a figure of an earlier, aborted render is open.
C10_Witness ==
    /\ pc = "done"
    /\ figsAtStart # {}
    /\ figs = figsAtStart

====
